---- MODULE Spec2Model ----
(***************************************************************************)
(* Event editor of the volunteer portal: the loader and the action of the *)
(* event-edit route (app/routes/admin+/_users+/users.tsx, lines 186-331),  *)
(* with the horse cooldown check the action runs before it updates the    *)
(* event.                                                                 *)
(*                                                                         *)
(* Instants are minutes since 00:00 of day 0 on the server's clock (no     *)
(* daylight-saving shift inside the modelled days, so date-fns             *)
(* add(d, {days: 1}) is d + 1440 minutes).                                 *)
(***************************************************************************)
EXTENDS Integers, Sequences, FiniteSets, TLC

VARIABLES
    horseDb,              \* prisma.horse: id -> persisted horse record
    event,                \* prisma.event: the record params.eventId names
    loaderData,           \* what the last loader run handed to the form
    response,             \* what the last run of action returned
    start,                \* action's local `start` of its last run
    selectedHorsesArray,  \* action's local `selectedHorsesArray`
    errorHorses,          \* action's local `errorHorses`
    nRequests,            \* number of submissions the action has handled
    request,              \* the submission under test (CheckSpec)
    phase,                \* position of the submission under test
    usersData,            \* what the users loader handed to an admin
    guestData,            \* what the loaders handed to a requester who is no admin
    pc,                   \* ConcSpec: where each caller's run of action stands
    inflight,             \* ConcSpec: the submission of each caller
    outcome,              \* ConcSpec: what each caller's run of action returned
    alone                 \* ConcSpec: what that submission returns when run alone

access == <<usersData, guestData>>

conc == <<pc, inflight, outcome, alone>>

vars == <<horseDb, event, loaderData, response, start, selectedHorsesArray,
          errorHorses, nRequests, request, phase, access, conc>>

----------------------------------------------------------------------------
(* Bounds *)

MaxDay == 1
MaxRequests == 2

----------------------------------------------------------------------------
(* Dates *)

MinutesPerDay == 1440

\* an optional date that is not there (undefined / null)
Absent == -1

\* what z.coerce.date() makes of a string that is no date
InvalidDate == -2

TimesOfDay == {0, 540, 570}

At(day, minute) == day * MinutesPerDay + minute

Instants == {At(d, m) : d \in 0..MaxDay, m \in TimesOfDay}

OptInstants == Instants \cup {Absent}

DayOf(t) == t \div MinutesPerDay

\* date-fns add(date, { days })
add(date, days) == date + days * MinutesPerDay

\* date-fns addMinutes(date, amount)
addMinutes(date, amount) == date + amount

----------------------------------------------------------------------------
(* Horses *)

Horses == {"h1", "h2"}

HorseName(id) == IF id = "h1" THEN "Apollo" ELSE "Biscuit"

\* a horse as horseSchema parses it
horseSchema(id, s, e) ==
    [id |-> id, name |-> HorseName(id),
     cooldownStartDate |-> s, cooldownEndDate |-> e]

HorseRecs == {horseSchema(h, s, e) : h \in Horses, s \in OptInstants, e \in OptInstants}

\* the horses a submission can carry: any selection, in any order
HorseLists(recs) ==
    {<<>>} \cup {<<a>> : a \in recs}
           \cup {<<p[1], p[2]>> : p \in {q \in recs \X recs : q[1].id # q[2].id}}

----------------------------------------------------------------------------
(* The cooldown check, action lines 269-288 *)

\* the callback without the day added to the end date
InCooldown_NoAddedDay(horse, st) ==
    IF horse.cooldownStartDate # Absent /\ horse.cooldownEndDate # Absent
    THEN /\ horse.cooldownStartDate <= st
         /\ st < horse.cooldownEndDate
    ELSE FALSE

\* the callback taking a missing start date for an open window
InCooldown_OpenStart(horse, st) ==
    IF horse.cooldownEndDate # Absent
    THEN /\ (horse.cooldownStartDate = Absent \/ horse.cooldownStartDate <= st)
         /\ st < add(horse.cooldownEndDate, 1)
    ELSE FALSE

\* the callback with <= for the upper comparison
InCooldown_InclusiveUpper(horse, st) ==
    IF horse.cooldownStartDate # Absent /\ horse.cooldownEndDate # Absent
    THEN /\ horse.cooldownStartDate <= st
         /\ st <= add(horse.cooldownEndDate, 1)
    ELSE FALSE

\* the callback handed to selectedHorsesArray.filter
InCooldown(horse, st) ==
    IF horse.cooldownStartDate # Absent /\ horse.cooldownEndDate # Absent
    THEN /\ horse.cooldownStartDate <= st
         /\ st < add(horse.cooldownEndDate, 1)
    ELSE FALSE

\* a filter that hands back the matches last to first
RECURSIVE filter_Reversed(_, _)
filter_Reversed(horses, st) ==
    IF horses = <<>> THEN <<>>
    ELSE filter_Reversed(Tail(horses), st)
         \o (IF InCooldown(Head(horses), st) THEN <<Head(horses)>> ELSE <<>>)

\* Array.prototype.filter with that callback
RECURSIVE filter(_, _)
filter(horses, st) ==
    IF horses = <<>> THEN <<>>
    ELSE (IF InCooldown(Head(horses), st) THEN <<Head(horses)>> ELSE <<>>)
         \o filter(Tail(horses), st)

\* Array.prototype.join
RECURSIVE join(_, _)
join(strs, sep) ==
    IF strs = <<>> THEN ""
    ELSE IF Len(strs) = 1 THEN strs[1]
    ELSE strs[1] \o sep \o join(Tail(strs), sep)

\* errorHorses.map(h => h.name).join(', ')
listOfHorses(errs) == join([i \in 1..Len(errs) |-> errs[i].name], ", ")

\* errorHorses.length > 1
hasErrorHorses_OffByOne(errs) == Len(errs) > 1

\* errorHorses.length > 0
hasErrorHorses(errs) == Len(errs) > 0

----------------------------------------------------------------------------
(* Submissions *)

null == "<null>"

\* the fields of the form other than startDate and horses
Fill(admin, title, duration, instructor, crew, private) ==
    [isAdmin |-> admin, title |-> title, duration |-> duration,
     instructor |-> instructor,
     cleaningCrewReq |-> crew, lessonAssistantsReq |-> 1,
     sideWalkersReq |-> 2, horseLeadersReq |-> 0, isPrivate |-> private]

FillA == Fill(TRUE, "Trail ride", 30, "", 0, FALSE)
FillB == Fill(TRUE, "Lesson", 60, "i1", 3, TRUE)

ValidFills == {FillA, FillB}

\* fills the schema rejects, and one sent by a requester who is no admin
BadFills == {Fill(TRUE, "", 30, "", 0, FALSE),
             Fill(TRUE, "Lesson", 0, "i1", 3, TRUE),
             Fill(TRUE, "Lesson", 60, "i1", -1, TRUE)}

\* more fills the schema rejects: each of the other counts, a negative duration
MoreBadFills == {[FillB EXCEPT !.lessonAssistantsReq = -1],
                 [FillB EXCEPT !.sideWalkersReq = -1],
                 [FillB EXCEPT !.horseLeadersReq = -2],
                 [FillA EXCEPT !.duration = -30]}

GuestFill == Fill(FALSE, "Lesson", 60, "i1", 3, TRUE)

\* a submission: hasHorses is whether the form data has a horses field
Submission(fill, startDate, hasHorses, horses) ==
    [isAdmin |-> fill.isAdmin, title |-> fill.title, startDate |-> startDate,
     duration |-> fill.duration, hasHorses |-> hasHorses, horses |-> horses,
     instructor |-> fill.instructor,
     cleaningCrewReq |-> fill.cleaningCrewReq,
     lessonAssistantsReq |-> fill.lessonAssistantsReq,
     sideWalkersReq |-> fill.sideWalkersReq,
     horseLeadersReq |-> fill.horseLeadersReq, isPrivate |-> fill.isPrivate]

\* submissions over a set of starts and a set of horse records
Submissions(fills, starts, recs) ==
    {Submission(f, s, TRUE, hs) : f \in fills, s \in starts, hs \in HorseLists(recs)}
    \cup {Submission(f, s, FALSE, <<>>) : f \in fills, s \in starts}

\* the schema refined to refuse a cooldown that starts after it ends
editEventSchema_OrderedWindows(sub) ==
    /\ sub.title # ""
    /\ sub.startDate # InvalidDate
    /\ sub.duration > 0
    /\ sub.cleaningCrewReq > -1
    /\ sub.lessonAssistantsReq > -1
    /\ sub.sideWalkersReq > -1
    /\ sub.horseLeadersReq > -1
    /\ \A i \in 1..Len(sub.horses) :
          \/ sub.horses[i].cooldownStartDate = Absent
          \/ sub.horses[i].cooldownEndDate = Absent
          \/ sub.horses[i].cooldownStartDate <= sub.horses[i].cooldownEndDate

\* the schema with z.coerce.number() and no bound for sideWalkersReq
editEventSchema_UncheckedCount(sub) ==
    /\ sub.title # ""
    /\ sub.startDate # InvalidDate
    /\ sub.duration > 0
    /\ sub.cleaningCrewReq > -1
    /\ sub.lessonAssistantsReq > -1
    /\ sub.horseLeadersReq > -1

\* the schema with duration gte(0) in place of gt(0)
editEventSchema_DurationGte0(sub) ==
    /\ sub.title # ""
    /\ sub.startDate # InvalidDate
    /\ sub.duration >= 0
    /\ sub.cleaningCrewReq > -1
    /\ sub.lessonAssistantsReq > -1
    /\ sub.sideWalkersReq > -1
    /\ sub.horseLeadersReq > -1

\* does parse(formData, { schema: editEventSchema }) yield a value
editEventSchema(sub) ==
    /\ sub.title # ""
    /\ sub.startDate # InvalidDate
    /\ sub.duration > 0
    /\ sub.cleaningCrewReq > -1
    /\ sub.lessonAssistantsReq > -1
    /\ sub.sideWalkersReq > -1
    /\ sub.horseLeadersReq > -1

----------------------------------------------------------------------------
(* Responses of action *)

NoResponse == [kind |-> "none", status |-> "", http |-> 0, message |-> null]

\* requireAdmin(request) throws: the action returns nothing
AdminError == [kind |-> "thrown", status |-> "", http |-> 0, message |-> null]

\* json({ status: 'error', submission, message: null }, { status: 400 })
SchemaError == [kind |-> "json", status |-> "error", http |-> 400, message |-> null]

\* the conflict answered the way a schema failure is
HorseError_AsSchemaError(msg) ==
    [kind |-> "json", status |-> "error", http |-> 400, message |-> msg]

\* json({ status: 'horse-error', submission, message: listOfHorses })
HorseError(msg) ==
    [kind |-> "json", status |-> "horse-error", http |-> 200, message |-> msg]

\* EventEditor: the toast useResetCallback raises for actionData
toastDescription(actionData) ==
    IF actionData.kind = "json" /\ actionData.status = "horse-error"
    THEN actionData.message ELSE null

\* redirectWithToast('..', { title: 'Success', description })
redirectWithToast(title) ==
    [kind |-> "redirect", status |-> "", http |-> 302,
     message |-> "Updated event " \o title]

----------------------------------------------------------------------------
(* The action of the event-edit route *)

\* horses: { connect: horseIds } in place of { set: horseIds }
horseIds_Connect(sub) ==
    event.horses \cup
    (IF sub.hasHorses THEN {sub.horses[i].id : i \in 1..Len(sub.horses)} ELSE {})

\* the association left alone when the form has no horses field
horseIds_KeepWhenAbsent(sub) ==
    IF sub.hasHorses THEN {sub.horses[i].id : i \in 1..Len(sub.horses)}
    ELSE event.horses

\* submission.value.horses?.map(e => ({ id: e.id })), as the set prisma sets
horseIds(sub) ==
    IF sub.hasHorses THEN {sub.horses[i].id : i \in 1..Len(sub.horses)} ELSE {}

\* instructorData
instructorData(sub) == IF sub.instructor # "" THEN {sub.instructor} ELSE {}

\* the record prisma.event.update leaves in storage
updatedEvent(sub, st) ==
    [title |-> sub.title, start |-> st, end |-> addMinutes(st, sub.duration),
     instructors |-> instructorData(sub), horses |-> horseIds(sub),
     cleaningCrewReq |-> sub.cleaningCrewReq,
     lessonAssistantsReq |-> sub.lessonAssistantsReq,
     sideWalkersReq |-> sub.sideWalkersReq,
     horseLeadersReq |-> sub.horseLeadersReq, isPrivate |-> sub.isPrivate]

\* the check run on the end of the event instead of its start
startOf_End(sub) == addMinutes(sub.startDate, sub.duration)

\* const start = submission.value.startDate
startOf(sub) == sub.startDate

\* the check passing over the horses the stored event already has
checkCooldown_SkipAssociated(sub) ==
    IF sub.hasHorses
    THEN filter(SelectSeq(sub.horses, LAMBDA h : h.id \notin event.horses),
                startOf(sub))
    ELSE <<>>

\* the cooldown check: errorHorses, or nothing when no horses were sent
checkCooldown(sub) ==
    IF sub.hasHorses THEN filter(sub.horses, startOf(sub)) ELSE <<>>

\* the requireAdmin call left out
requireAdmin_Skipped(isAdmin) == TRUE

\* await requireAdmin(request): goes on for an admin, throws for anyone else
requireAdmin(isAdmin) == isAdmin

action(sub) ==
    IF ~requireAdmin(sub.isAdmin)
    THEN /\ response' = AdminError
         /\ start' = Absent /\ selectedHorsesArray' = <<>> /\ errorHorses' = <<>>
         /\ UNCHANGED event
    ELSE IF ~editEventSchema(sub)
    THEN /\ response' = SchemaError
         /\ start' = Absent /\ selectedHorsesArray' = <<>> /\ errorHorses' = <<>>
         /\ UNCHANGED event
    ELSE LET st == startOf(sub)
             errs == checkCooldown(sub)
         IN  /\ start' = st
             /\ selectedHorsesArray' = sub.horses
             /\ errorHorses' = errs
             /\ IF sub.hasHorses /\ hasErrorHorses(errs)
                THEN /\ response' = HorseError(listOfHorses(errs))
                     /\ UNCHANGED event
                ELSE /\ event' = updatedEvent(sub, st)
                     /\ response' = redirectWithToast(sub.title)

----------------------------------------------------------------------------
(* The site: horses are edited, the form is loaded and submitted *)

InitDb == [h \in Horses |-> horseSchema(h, Absent, Absent)]

InitEvent ==
    [title |-> "Old", start |-> At(0, 0), end |-> addMinutes(At(0, 0), 30),
     instructors |-> {"i0"}, horses |-> {"h2"},
     cleaningCrewReq |-> 0, lessonAssistantsReq |-> 0, sideWalkersReq |-> 0,
     horseLeadersReq |-> 0, isPrivate |-> FALSE]

NoRequest == Submission(GuestFill, InvalidDate, FALSE, <<>>)

\* the cooldown windows the horse editor is given
EditWindows == {<<Absent, Absent>>, <<At(0, 0), At(0, 570)>>, <<Absent, At(0, 570)>>}

\* the starts the form is submitted with
FormStarts == {At(0, 540), At(1, 0), At(1, 570)}

NoData == [kind |-> "none", data |-> <<>>]

Thrown == [kind |-> "thrown", data |-> <<>>]

\* loader of the event-edit route: prisma.horse.findMany() goes to the
\* form's HorseListbox of the admin who asked; requireAdmin throws for
\* anyone else
loader(isAdmin) ==
    /\ IF requireAdmin(isAdmin)
       THEN IF isAdmin
            THEN /\ loaderData' = [loaded |-> TRUE, horses |-> horseDb]
                 /\ UNCHANGED guestData
            ELSE /\ guestData' = [guestData EXCEPT
                        !.event = [kind |-> "json", data |-> <<event, horseDb>>]]
                 /\ UNCHANGED loaderData
       ELSE /\ guestData' = [guestData EXCEPT !.event = Thrown]
            /\ UNCHANGED loaderData
    /\ UNCHANGED <<horseDb, event, response, start, selectedHorsesArray,
                   errorHorses, nRequests, request, phase, usersData, conc>>

\* prisma.user.findMany({ include: { roles: true } })
Users ==
    {[id |-> "u1", name |-> "Ann", roles |-> {"admin"}],
     [id |-> "u2", name |-> "Bob", roles |-> {"horseLeader"}]}

\* loader of the users route
usersLoader(isAdmin) ==
    /\ IF requireAdmin(isAdmin)
       THEN IF isAdmin
            THEN /\ usersData' = [kind |-> "json", data |-> Users]
                 /\ UNCHANGED guestData
            ELSE /\ guestData' = [guestData EXCEPT
                        !.users = [kind |-> "json", data |-> Users]]
                 /\ UNCHANGED usersData
       ELSE /\ guestData' = [guestData EXCEPT !.users = Thrown]
            /\ UNCHANGED usersData
    /\ UNCHANGED <<horseDb, event, loaderData, response, start,
                   selectedHorsesArray, errorHorses, nRequests, request,
                   phase, conc>>

\* the horse editor stores a cooldown window
EditHorse(h, w) ==
    /\ horseDb' = [horseDb EXCEPT ![h] = horseSchema(h, w[1], w[2])]
    /\ UNCHANGED <<event, loaderData, response, start, selectedHorsesArray,
                   errorHorses, nRequests, request, phase, access, conc>>

\* what the loaded form can send: its horses are those the loader handed it
FormSubmissions ==
    LET recs  == {loaderData.horses[h] : h \in Horses}
        both  == <<loaderData.horses["h1"], loaderData.horses["h2"]>>
    IN  Submissions(ValidFills, FormStarts, recs)
        \cup {Submission(f, At(0, 540), TRUE, both) :
                f \in BadFills \cup MoreBadFills \cup {GuestFill}}
        \cup {Submission(FillA, InvalidDate, TRUE, both)}

Submit ==
    /\ loaderData.loaded
    /\ nRequests < MaxRequests
    /\ \E sub \in FormSubmissions : action(sub)
    /\ nRequests' = nRequests + 1
    /\ UNCHANGED <<horseDb, loaderData, request, phase, access, conc>>

Callers == {"c1", "c2"}

\* nobody has asked a loader for anything, no caller is in the action
Idle ==
    /\ usersData = NoData
    /\ guestData = [event |-> NoData, users |-> NoData]
    /\ pc = [c \in Callers |-> "idle"]
    /\ inflight = [c \in Callers |-> NoRequest]
    /\ outcome = [c \in Callers |-> NoResponse]
    /\ alone = [c \in Callers |-> NoResponse]

Init ==
    /\ Idle
    /\ horseDb = InitDb
    /\ event = InitEvent
    /\ loaderData = [loaded |-> FALSE, horses |-> InitDb]
    /\ response = NoResponse
    /\ start = Absent
    /\ selectedHorsesArray = <<>>
    /\ errorHorses = <<>>
    /\ nRequests = 0
    /\ request = NoRequest
    /\ phase = "live"

Next ==
    \/ loader(TRUE)
    \/ \E h \in Horses, w \in EditWindows : EditHorse(h, w)
    \/ Submit

Spec == Init /\ [][Next]_vars

----------------------------------------------------------------------------
(* One submission, drawn from every start and every cooldown window, is    *)
(* handled and then sent again                                             *)

SmallLists ==
    HorseLists({horseSchema("h1", At(0, 0), At(0, 570)),
                horseSchema("h2", Absent, Absent)})

CheckRequests ==
    Submissions(ValidFills, Instants, HorseRecs)
    \cup {Submission(f, s, TRUE, hs) :
            f \in BadFills \cup MoreBadFills \cup {GuestFill},
            s \in Instants, hs \in SmallLists}
    \cup {Submission(f, InvalidDate, TRUE, hs) : f \in ValidFills, hs \in SmallLists}

CheckInit ==
    /\ Idle
    /\ horseDb = InitDb
    /\ event = InitEvent
    /\ loaderData = [loaded |-> FALSE, horses |-> InitDb]
    /\ response = NoResponse
    /\ start = Absent
    /\ selectedHorsesArray = <<>>
    /\ errorHorses = <<>>
    /\ nRequests = 0
    /\ request \in CheckRequests
    /\ phase = "pending"

Handle ==
    /\ phase = "pending"
    /\ action(request)
    /\ phase' = "done"
    /\ UNCHANGED <<horseDb, loaderData, nRequests, request, access, conc>>

Resubmit ==
    /\ phase = "done"
    /\ action(request)
    /\ phase' = "repeated"
    /\ UNCHANGED <<horseDb, loaderData, nRequests, request, access, conc>>

CheckNext == Handle \/ Resubmit

CheckSpec == CheckInit /\ [][CheckNext]_vars

----------------------------------------------------------------------------
(* Properties of the cooldown check (CheckSpec) *)

\* the submission under test got as far as the cooldown check
CheckRan ==
    /\ phase # "pending"
    /\ request.isAdmin
    /\ editEventSchema(request)
    /\ request.hasHorses

Selected == 1..Len(request.horses)

BothSet(h) == h.cooldownStartDate # Absent /\ h.cooldownEndDate # Absent

Reported(h) == \E j \in 1..Len(errorHorses) : errorHorses[j] = h

\* C1: a selected horse with both cooldown dates S and E set is reported
\* if and only if S <= t and t < E + 1 day, t being the candidate start.
C1_ReportedIffInWindow ==
    CheckRan =>
        \A i \in Selected :
            LET h == request.horses[i]
                t == request.startDate
            IN  BothSet(h) =>
                    (Reported(h) <=>
                        (/\ h.cooldownStartDate <= t
                         /\ t < h.cooldownEndDate + MinutesPerDay))

\* a start after E, within the day added to E, reports the horse
C1_Witness ==
    /\ CheckRan
    /\ \E i \in Selected :
          LET h == request.horses[i]
          IN  /\ BothSet(h)
              /\ h.cooldownStartDate <= h.cooldownEndDate
              /\ request.startDate > h.cooldownEndDate
              /\ Reported(h)

\* C3: a selected horse lacking cooldownStartDate or cooldownEndDate is
\* never reported, whatever the start and the other boundary.
C3_PartialWindowNeverReported ==
    CheckRan =>
        \A i \in Selected :
            ~BothSet(request.horses[i]) => ~Reported(request.horses[i])

\* a horse with only an end date, at a start before that end, is passed
\* over by a check that does report the other horse
C3_Witness ==
    /\ CheckRan
    /\ errorHorses # <<>>
    /\ \E i \in Selected :
          LET h == request.horses[i]
          IN  /\ h.cooldownStartDate = Absent
              /\ h.cooldownEndDate # Absent
              /\ request.startDate <= h.cooldownEndDate
              /\ ~Reported(h)

\* C5: with the cooldown begun (S <= t), a horse whose cooldown ends on
\* calendar day D is reported for every start t during day D and for no
\* start on day D+1 or later, whatever time of day the end date carries.
C5_EndDayInclusive ==
    CheckRan =>
        \A i \in Selected :
            LET h == request.horses[i]
                t == request.startDate
            IN  (BothSet(h) /\ h.cooldownStartDate <= t) =>
                    /\ DayOf(t) = DayOf(h.cooldownEndDate) => Reported(h)
                    /\ DayOf(t) > DayOf(h.cooldownEndDate) => ~Reported(h)

\* C6: for a window [S, E] with S <= E, a start equal to S is reported, a
\* start equal to E is reported, and a start equal to E + 1 day is not.
C6_Boundaries ==
    CheckRan =>
        \A i \in Selected :
            LET h == request.horses[i]
                t == request.startDate
            IN  (BothSet(h) /\ h.cooldownStartDate <= h.cooldownEndDate) =>
                    /\ t = h.cooldownStartDate => Reported(h)
                    /\ t = h.cooldownEndDate => Reported(h)
                    /\ t = h.cooldownEndDate + MinutesPerDay => ~Reported(h)

\* one start that is the end date of one horse (reported) and the end date
\* plus one day of the other (not reported)
C6_Witness ==
    /\ CheckRan
    /\ Len(request.horses) = 2
    /\ \E i, k \in Selected :
          LET a == request.horses[i]
              b == request.horses[k]
          IN  /\ BothSet(a) /\ a.cooldownStartDate < a.cooldownEndDate
              /\ request.startDate = a.cooldownEndDate
              /\ Reported(a)
              /\ BothSet(b) /\ b.cooldownStartDate <= b.cooldownEndDate
              /\ request.startDate = b.cooldownEndDate + MinutesPerDay
              /\ ~Reported(b)

\* position of a horse in the submitted list
Pos(h) == CHOOSE i \in Selected : request.horses[i] = h

\* the window definition of the specification
Conflicts(h, t) ==
    /\ BothSet(h)
    /\ h.cooldownStartDate <= t
    /\ t < h.cooldownEndDate + MinutesPerDay

\* C8: the conflict list holds exactly the conflicting horses, in the order
\* of the submitted list, and the message names them in that order,
\* separated by ", ".
C8_OrderPreserved ==
    CheckRan =>
        /\ \A j \in 1..Len(errorHorses) :
              /\ \E i \in Selected : request.horses[i] = errorHorses[j]
              /\ Conflicts(errorHorses[j], request.startDate)
        /\ \A i \in Selected :
              Conflicts(request.horses[i], request.startDate)
                  => Reported(request.horses[i])
        /\ \A j, k \in 1..Len(errorHorses) :
              j < k => Pos(errorHorses[j]) < Pos(errorHorses[k])
        /\ Len(errorHorses) = 1 => response.message = errorHorses[1].name
        /\ Len(errorHorses) = 2 =>
              response.message = errorHorses[1].name \o ", " \o errorHorses[2].name

\* Biscuit was submitted before Apollo, both conflict
C8_Witness ==
    /\ CheckRan
    /\ Len(errorHorses) = 2
    /\ request.horses[1].id = "h2"
    /\ errorHorses[1].id = "h2"
    /\ response.message = "Biscuit, Apollo"

\* C9: the conflict list depends on the start and the horses only: it is
\* the same for every duration (a horse whose window the event only runs
\* into after its start is not reported), and sending the same submission
\* again yields the same list and the same response.
C9_DurationIndependent ==
    [][/\ phase' = "repeated" =>
            (errorHorses' = errorHorses /\ response' = response)
       /\ CheckRan' =>
            /\ \A d \in {30, 60, 90, 120} :
                  checkCooldown([request EXCEPT !.duration = d]) = errorHorses'
            /\ \A i \in Selected :
                  LET h == request.horses[i]
                      t == request.startDate
                  IN  (/\ BothSet(h)
                       /\ t < h.cooldownStartDate
                       /\ h.cooldownStartDate <= t + request.duration
                       /\ t + request.duration < h.cooldownEndDate + MinutesPerDay)
                      => ~(\E j \in 1..Len(errorHorses') : errorHorses'[j] = h)
      ]_vars

\* an event that starts before the window and ends inside it was accepted,
\* stored, and sent again
C9_Witness ==
    /\ phase = "repeated"
    /\ CheckRan
    /\ response.kind = "redirect"
    /\ event.start = request.startDate
    /\ \E i \in Selected :
          LET h == request.horses[i]
          IN  /\ BothSet(h)
              /\ request.startDate < h.cooldownStartDate
              /\ h.cooldownStartDate <= event.end
              /\ event.end < h.cooldownEndDate + MinutesPerDay

\* the three outcomes of a submission an admin sends
IsSchemaError ==
    response = [kind |-> "json", status |-> "error", http |-> 400, message |-> null]
IsHorseError ==
    /\ response.kind = "json" /\ response.status = "horse-error"
    /\ response.http # 400
    /\ response.message # null
IsUpdateAndRedirect == response.kind = "redirect"

\* C10: conflicts are answered with a value, status 'horse-error' and the
\* names as message, never by throwing or redirecting; a schema failure is
\* answered with status 'error', HTTP 400, message null; every submission
\* ends in exactly one of schema error, horse error, update and redirect,
\* and only the horse error raises the editor's toast.
C10_Outcomes ==
    (phase # "pending" /\ request.isAdmin) =>
        /\ response.kind # "thrown"
        /\ Cardinality({o \in {"schema", "horse", "redirect"} :
                \/ o = "schema" /\ IsSchemaError
                \/ o = "horse" /\ IsHorseError
                \/ o = "redirect" /\ IsUpdateAndRedirect}) = 1
        /\ IsSchemaError <=> ~editEventSchema(request)
        /\ IsHorseError <=> errorHorses # <<>>
        /\ IsHorseError =>
              /\ response.message = listOfHorses(errorHorses)
              /\ toastDescription(response) = response.message
              /\ event = InitEvent
        /\ IsSchemaError => (toastDescription(response) = null /\ event = InitEvent)
        /\ IsUpdateAndRedirect <=> event # InitEvent

\* a conflict answered with status 'horse-error' and the horse's name
C10_Witness ==
    /\ phase = "done"
    /\ request.isAdmin
    /\ IsHorseError
    /\ Len(errorHorses) = 1
    /\ response.message = "Apollo"

----------------------------------------------------------------------------
(* Properties of the action on the site (Spec) *)

\* the step is a run of action
Submitted == nRequests' # nRequests

\* C2: when the cooldown check reports a horse, the update is not applied:
\* the stored event, with its horses and instructors, stays as it was.
C2_ConflictLeavesEvent ==
    [][(Submitted /\ errorHorses' # <<>>) => event' = event]_vars

\* two horses were submitted for an event edited before, one conflicts,
\* and the event still has the horse of the earlier edit
C2_Witness ==
    /\ response.status = "horse-error"
    /\ Len(selectedHorsesArray) = 2
    /\ Len(errorHorses) = 1
    /\ event # InitEvent
    /\ event.horses = {"h2"}
    /\ start # event.start

\* C4: no update is applied that associates the event with a horse whose
\* persisted cooldown window contains the event's start.
C4_PersistedWindowChecked ==
    [][(Submitted /\ response'.kind = "redirect") =>
            \A h \in event'.horses : ~Conflicts(horseDb[h], event'.start)]_vars

\* C7: a schema-valid submission without conflicts is persisted: the
\* stored start is the candidate start and the event's horses become
\* exactly the submitted ones.
C7_NoConflictPersists ==
    [][(Submitted /\ start' # Absent /\ errorHorses' = <<>>) =>
            /\ response'.kind = "redirect"
            /\ event'.start = start'
            /\ event'.horses =
                  {selectedHorsesArray'[i].id : i \in 1..Len(selectedHorsesArray')}
      ]_vars

\* Apollo, whose cooldown ended the day before, replaced Biscuit
C7_Witness ==
    /\ response.kind = "redirect"
    /\ start = At(1, 570)
    /\ event.start = At(1, 570)
    /\ Len(selectedHorsesArray) = 1
    /\ BothSet(selectedHorsesArray[1])
    /\ event.horses = {"h1"}

----------------------------------------------------------------------------
(* Properties of the action as a whole *)

Counts(sub) ==
    {sub.cleaningCrewReq, sub.lessonAssistantsReq,
     sub.sideWalkersReq, sub.horseLeadersReq}

\* the failures of the form data the schema is there to refuse
Rejectable(sub) ==
    \/ sub.title = ""
    \/ sub.startDate = InvalidDate
    \/ sub.duration <= 0
    \/ \E n \in Counts(sub) : n < 0

\* C11: the cooldown check never fails: for every start and every horse
\* list, horses with one boundary set or an inverted window included, an
\* otherwise valid submission ends with a conflict list that is part of
\* the submitted list and with the horse error or the update, never with
\* an error outcome.
C11_CheckNeverFails ==
    (phase # "pending" /\ request.isAdmin /\ ~Rejectable(request)
        /\ request.hasHorses) =>
        /\ start = request.startDate
        /\ \A j \in 1..Len(errorHorses) :
              \E i \in Selected : request.horses[i] = errorHorses[j]
        /\ response.kind # "thrown"
        /\ response.status # "error"
        /\ response.http # 400
        /\ \/ errorHorses # <<>> /\ response.status = "horse-error"
           \/ errorHorses = <<>> /\ response.kind = "redirect"

\* a horse with an inverted window and one with only a start date, at a
\* start on or after both start dates: checked, nothing reported, accepted
C11_Witness ==
    /\ phase = "done"
    /\ request.isAdmin /\ ~Rejectable(request)
    /\ Len(request.horses) = 2
    /\ \E i, k \in Selected :
          LET a == request.horses[i]
              b == request.horses[k]
          IN  /\ BothSet(a) /\ a.cooldownStartDate > a.cooldownEndDate
              /\ a.cooldownStartDate <= request.startDate
              /\ b.cooldownStartDate # Absent /\ b.cooldownEndDate = Absent
              /\ b.cooldownStartDate <= request.startDate
    /\ errorHorses = <<>>
    /\ response.kind = "redirect"

\* C13: a submission that fails schema validation (empty title, unparsable
\* start, duration not above 0, a negative requirement count) is answered
\* with status 'error' and HTTP 400 before the cooldown check runs, and
\* the stored event is unchanged.
C13_SchemaErrorFirst ==
    (phase # "pending" /\ request.isAdmin /\ Rejectable(request)) =>
        /\ response = [kind |-> "json", status |-> "error", http |-> 400,
                       message |-> null]
        /\ start = Absent
        /\ selectedHorsesArray = <<>>
        /\ errorHorses = <<>>
        /\ event = InitEvent

\* a negative count sent along with a horse that is in cooldown at the
\* start: answered as a schema error, not as a horse error
C13_Witness ==
    /\ phase = "done"
    /\ request.isAdmin
    /\ request.sideWalkersReq < 0
    /\ request.startDate # InvalidDate
    /\ \E i \in Selected : Conflicts(request.horses[i], request.startDate)
    /\ response.status = "error"
    /\ response.http = 400
    /\ event = InitEvent

\* C15: a schema-valid submission without a horses field skips the
\* cooldown check, is applied, and leaves the event with no horse.
C15_NoHorsesFieldClears ==
    (phase # "pending" /\ request.isAdmin /\ ~Rejectable(request)
        /\ ~request.hasHorses) =>
        /\ errorHorses = <<>>
        /\ response.kind = "redirect"
        /\ event.start = request.startDate
        /\ event.title = request.title
        /\ event.horses = {}

\* the event had Biscuit before the submission and has no horse after it
C15_Witness ==
    /\ phase = "done"
    /\ request.isAdmin /\ ~Rejectable(request)
    /\ ~request.hasHorses
    /\ InitEvent.horses = {"h2"}
    /\ event # InitEvent
    /\ event.horses = {}

----------------------------------------------------------------------------
(* Requests by admins and by others: both loaders and the action *)

SmallRecs ==
    {horseSchema("h1", At(0, 0), At(0, 570)), horseSchema("h2", Absent, Absent)}

\* the same fills sent by a requester who is no admin
GuestFills ==
    {GuestFill, [FillA EXCEPT !.isAdmin = FALSE],
     Fill(FALSE, "", 30, "", 0, FALSE)}

AccessSubmissions ==
    Submissions(ValidFills \cup GuestFills, FormStarts, SmallRecs)
    \cup {Submission(f, At(0, 540), TRUE, <<>>) : f \in BadFills \cup MoreBadFills}

\* a request to the action, from anyone
Request ==
    /\ nRequests < MaxRequests
    /\ \E sub \in AccessSubmissions :
          /\ action(sub)
          /\ request' = sub
    /\ nRequests' = nRequests + 1
    /\ UNCHANGED <<horseDb, loaderData, phase, access, conc>>

AccessNext ==
    \/ \E isAdmin \in BOOLEAN : loader(isAdmin)
    \/ \E isAdmin \in BOOLEAN : usersLoader(isAdmin)
    \/ Request

AccessSpec == Init /\ [][AccessNext]_vars

\* C14: the admin check comes before parsing, cooldown check and update:
\* a request of a requester who fails requireAdmin changes no event record
\* and gets no further than the throw, and neither the event-edit loader
\* nor the users loader hands such a requester any data.
C14_AdminFirst ==
    [][/\ (Submitted /\ ~request'.isAdmin) =>
            /\ event' = event
            /\ response'.kind = "thrown"
            /\ start' = Absent
            /\ errorHorses' = <<>>
       /\ guestData'.event.kind # "json"
       /\ guestData'.users.kind # "json"
      ]_vars

\* after an admin's edit, a requester who is no admin was turned away by
\* both loaders and by the action, with form data the schema would refuse
\* and a horse in cooldown; an admin got the users table
C14_Witness ==
    /\ event # InitEvent
    /\ ~request.isAdmin
    /\ request.title = ""
    /\ \E i \in Selected : Conflicts(request.horses[i], request.startDate)
    /\ response.kind = "thrown"
    /\ guestData.event.kind = "thrown"
    /\ guestData.users.kind = "thrown"
    /\ usersData.kind = "json"
    /\ loaderData.loaded

\* C16: every event the action writes has end = start + duration minutes
\* for a duration above 0, so its end is later than its start.
C16_EndAfterStart ==
    [][(Submitted /\ (response'.kind = "redirect" \/ event' # event)) =>
            /\ request'.duration > 0
            /\ event'.start = request'.startDate
            /\ event'.end = request'.startDate + request'.duration
            /\ event'.end > event'.start
      ]_vars

\* the second edit of the event wrote a 60 minute lesson
C16_Witness ==
    /\ nRequests = 2
    /\ response.kind = "redirect"
    /\ request.duration = 60
    /\ event.start = At(1, 0)
    /\ event.end = At(1, 60)

----------------------------------------------------------------------------
(* Two callers submit at the same time: each run of the action goes on at  *)
(* its awaits, requireAdmin, then the form data, then prisma.event.update  *)

ConcSubmissions ==
    Submissions(ValidFills, FormStarts, SmallRecs)
    \cup {Submission(f, At(0, 540), TRUE, <<>>) : f \in BadFills \cup {GuestFill}}

\* what the action returns for a submission, its awaits run through
actionResponse(sub) ==
    IF ~requireAdmin(sub.isAdmin) THEN AdminError
    ELSE IF ~editEventSchema(sub) THEN SchemaError
    ELSE IF sub.hasHorses /\ hasErrorHorses(checkCooldown(sub))
    THEN HorseError(listOfHorses(checkCooldown(sub)))
    ELSE redirectWithToast(updatedEvent(sub, startOf(sub)).title)

ConcInit ==
    /\ horseDb = InitDb
    /\ event = InitEvent
    /\ loaderData = [loaded |-> FALSE, horses |-> InitDb]
    /\ response = NoResponse
    /\ start = Absent
    /\ selectedHorsesArray = <<>>
    /\ errorHorses = <<>>
    /\ nRequests = 0
    /\ request = NoRequest
    /\ phase = "live"
    /\ usersData = NoData
    /\ guestData = [event |-> NoData, users |-> NoData]
    /\ pc = [c \in Callers |-> "requireAdmin"]
    /\ inflight \in [Callers -> ConcSubmissions]
    /\ outcome = [c \in Callers |-> NoResponse]
    /\ alone = [c \in Callers |-> actionResponse(inflight[c])]

\* up to await requireAdmin(request)
Admit(c) ==
    /\ pc[c] = "requireAdmin"
    /\ IF requireAdmin(inflight[c].isAdmin)
       THEN /\ pc' = [pc EXCEPT ![c] = "parse"]
            /\ UNCHANGED outcome
       ELSE /\ pc' = [pc EXCEPT ![c] = "done"]
            /\ outcome' = [outcome EXCEPT ![c] = AdminError]
    /\ UNCHANGED <<horseDb, event, loaderData, response, start,
                   selectedHorsesArray, errorHorses, nRequests, request,
                   phase, access, inflight, alone>>

\* from the form data to the call of prisma.event.update
Check(c) ==
    /\ pc[c] = "parse"
    /\ LET sub  == inflight[c]
           errs == checkCooldown(sub)
       IN  IF ~editEventSchema(sub)
           THEN /\ pc' = [pc EXCEPT ![c] = "done"]
                /\ outcome' = [outcome EXCEPT ![c] = SchemaError]
           ELSE IF sub.hasHorses /\ hasErrorHorses(errs)
           THEN /\ pc' = [pc EXCEPT ![c] = "done"]
                /\ outcome' = [outcome EXCEPT ![c] = HorseError(listOfHorses(errs))]
           ELSE /\ pc' = [pc EXCEPT ![c] = "update"]
                /\ UNCHANGED outcome
    /\ UNCHANGED <<horseDb, event, loaderData, response, start,
                   selectedHorsesArray, errorHorses, nRequests, request,
                   phase, access, inflight, alone>>

\* prisma.event.update lands, the action redirects
Update(c) ==
    /\ pc[c] = "update"
    /\ event' = updatedEvent(inflight[c], startOf(inflight[c]))
    /\ outcome' = [outcome EXCEPT ![c] = redirectWithToast(event'.title)]
    /\ pc' = [pc EXCEPT ![c] = "done"]
    /\ UNCHANGED <<horseDb, loaderData, response, start, selectedHorsesArray,
                   errorHorses, nRequests, request, phase, access, inflight,
                   alone>>

ConcNext == \E c \in Callers : Admit(c) \/ Check(c) \/ Update(c)

ConcSpec == ConcInit /\ [][ConcNext]_vars

\* C12: under every interleaving of two submissions each one ends the way
\* it ends when it runs alone: accepted, or rejected with its conflict
\* list.
C12_IndependentOutcomes ==
    \A c \in Callers :
        pc[c] = "done" =>
            /\ outcome[c] = alone[c]
            /\ outcome[c].kind # "none"

\* c1 gave Apollo to the event for the day after the cooldown, c2's
\* submission of Apollo for a start within the cooldown was rejected
C12_Witness ==
    /\ \A c \in Callers : pc[c] = "done"
    /\ outcome["c1"].kind = "redirect"
    /\ event.horses = {"h1"}
    /\ event.start = At(1, 570)
    /\ outcome["c2"].status = "horse-error"
    /\ outcome["c2"].message = "Apollo"
    /\ inflight["c2"].startDate = At(0, 540)

====
